---- MODULE Spec2Model ----
(***************************************************************************)
(* Model of src/app.py: the meeting-preparation agent.                     *)
(*                                                                         *)
(* A Python str is a sequence of characters; every character is a          *)
(* one-character TLA+ string.  The fixed text of an f-string template is   *)
(* carried as one atom per literal segment (Lit); the text interpolated    *)
(* into a template is carried character by character.  Long literal        *)
(* segments are abridged with [...] and their emoji left out.  The warning *)
(* sign of the failure placeholders is two code points, the sign U+26A0    *)
(* and the variation selector U+FE0F: two characters here.                 *)
(***************************************************************************)
EXTENDS Naturals, Sequences, FiniteSets

VARIABLES
    env_vars,        \* load_environment(): which API keys are set
    search_tool,     \* the search client (global set by setup_tools)
    llm,             \* the completion client (global set by setup_tools)
    form,            \* the widget values read by the last script run
    ui,              \* what the page shows
    validation_error,\* validate_inputs' result in the last script run
    initial_state,   \* the state handed to app.invoke
    state,           \* the running MeetingState of the graph
    pc,              \* the graph node to execute next
    executed,        \* nodes executed in the current invocation, in order
    calls,           \* client calls issued in the current invocation
    written,         \* keys of the updates merged in the current invocation
    search_results,  \* local of the node executed last
    prompt,          \* local of the node executed last
    results          \* what app.invoke returned, oldest first

vars == <<env_vars, search_tool, llm, form, ui, validation_error,
          initial_state, state, pc, executed, calls, written,
          search_results, prompt, results>>

----------------------------------------------------------------------------
(* Bounds of the model. *)

\* longest company name typed into the form
MaxLen == 2
\* how far the longest search result exceeds the truncation limit
MaxOver == 1

----------------------------------------------------------------------------
(* Strings. *)

Min(a, b) == IF a < b THEN a ELSE b

Lit(text) == <<text>>

\* str.strip() with no argument removes from both ends every character c
\* with c.isspace(): 29 code points.  The five that have an escape are
\* written with it; the other 24 are named by code point, as one character
\* each.  WhitespaceLiteral spells again, as the character itself, those of
\* the 24 that a string of this module can hold (U+000B, U+001C..U+001F,
\* U+0085, U+00A0, U+1680).
WhitespaceLiteral ==
    {"", "", "", "", "", "", " ", " "}

Whitespace ==
    {" ", "\t", "\n", "\r", "\f",
     "U+000B", "U+001C", "U+001D", "U+001E", "U+001F", "U+0085",
     "U+00A0", "U+1680", "U+2000", "U+2001", "U+2002", "U+2003",
     "U+2004", "U+2005", "U+2006", "U+2007", "U+2008", "U+2009",
     "U+200A", "U+2028", "U+2029", "U+202F", "U+205F", "U+3000"}
    \cup WhitespaceLiteral

RECURSIVE LStrip(_)
LStrip(s) ==
    IF s # <<>> /\ s[1] \in Whitespace THEN LStrip(Tail(s)) ELSE s

RECURSIVE RStrip(_)
RStrip(s) ==
    IF s # <<>> /\ s[Len(s)] \in Whitespace
    THEN RStrip(SubSeq(s, 1, Len(s) - 1))
    ELSE s

Strip(s) == RStrip(LStrip(s))

Digit(d) == CASE d = 0 -> "0" [] d = 1 -> "1" [] d = 2 -> "2" [] d = 3 -> "3"
              [] d = 4 -> "4" [] d = 5 -> "5" [] d = 6 -> "6" [] d = 7 -> "7"
              [] d = 8 -> "8" [] d = 9 -> "9"

\* the f-string conversion of a non-negative int
RECURSIVE IntToStr(_)
IntToStr(n) ==
    IF n < 10 THEN <<Digit(n)>> ELSE Append(IntToStr(n \div 10), Digit(n % 10))

\* all strings over the alphabet of length at most n
RECURSIVE StringsUpTo(_, _)
StringsUpTo(alphabet, n) ==
    IF n = 0 THEN {<<>>}
    ELSE LET shorter == StringsUpTo(alphabet, n - 1)
         IN  shorter \cup {Append(s, c) : s \in shorter, c \in alphabet}

\* the keys of a dict, in some order
RECURSIVE SetToSeq(_)
SetToSeq(S) ==
    IF S = {} THEN <<>>
    ELSE LET x == CHOOSE y \in S : TRUE IN <<x>> \o SetToSeq(S \ {x})


----------------------------------------------------------------------------
(* validate_inputs *)

None == <<"None">>

MsgCompanyRequired   == Lit("Nome da empresa é obrigatório")
MsgObjectiveRequired == Lit("Objetivo da reunião é obrigatório")
MsgAttendeesRequired == Lit("Lista de participantes é obrigatória")
MsgCompanyTooShort   == Lit("Nome da empresa deve ter pelo menos 2 caracteres")

\* variant: the minimum length is taken of the stripped company name
validate_inputs_striplen(company, objective, attendees) ==
    IF Strip(company) = <<>> THEN MsgCompanyRequired
    ELSE IF Strip(objective) = <<>> THEN MsgObjectiveRequired
    ELSE IF Strip(attendees) = <<>> THEN MsgAttendeesRequired
    ELSE IF Len(Strip(company)) < 2 THEN MsgCompanyTooShort
    ELSE None

validate_inputs(company, objective, attendees) ==
    IF Strip(company) = <<>> THEN MsgCompanyRequired
    ELSE IF Strip(objective) = <<>> THEN MsgObjectiveRequired
    ELSE IF Strip(attendees) = <<>> THEN MsgAttendeesRequired
    ELSE IF Len(company) < 2 THEN MsgCompanyTooShort
    ELSE None

----------------------------------------------------------------------------
(* MeetingState and the clients' outcomes *)

InputKeys  == {"company_name", "meeting_objective", "attendees", "duration",
               "focus_areas", "timestamp"}
OutputKeys == {"context_analysis", "industry_analysis", "strategy",
               "executive_brief"}

NoState == [none |-> TRUE]
Unset   == <<"<unset>">>

\* dict.get(key, default): the default only when the key is absent
Get(st, key, default) == IF key \in DOMAIN st THEN st[key] ELSE default

\* the graph's merge of a node's partial update into the running state
Merge(st, update) ==
    [k \in DOMAIN st \cup DOMAIN update |->
        IF k \in DOMAIN update THEN update[k] ELSE st[k]]

\* what a client call does: it returns text, or raises with a message
Returned(text) == [raised |-> FALSE, value |-> text]
Raised(detail) == [raised |-> TRUE, value |-> detail]
NoCall         == [raised |-> FALSE, value |-> Unset]

WarningMarker == <<"⚠", "U+FE0F">>
NotAvailable  == Lit("Não disponível")

TruncLimit == 3000

\* variant: the slice keeps one character too many
Truncate_offbyone(s) == SubSeq(s, 1, Min(Len(s), TruncLimit + 1))

\* search_results[:3000]
Truncate(s) == SubSeq(s, 1, Min(Len(s), TruncLimit))

----------------------------------------------------------------------------
(* The four nodes.  A node is a function of the state it is given and of   *)
(* what its client calls do; it yields the update it returns, the calls it *)
(* issued, its locals, and whether an exception left it.                   *)

CallRecord(node, kind, outcome) ==
    [node |-> node, kind |-> kind,
     outcome |-> IF outcome.raised THEN "raised"
                 ELSE IF outcome.value = <<>> THEN "empty" ELSE "text"]

NodeResult(update, issued, results_local, prompt_local) ==
    [update |-> update, calls |-> issued, search_results |-> results_local,
     prompt |-> prompt_local, raised |-> FALSE]

\* --- node 1: context -----------------------------------------------------

\* variant: the query also carries how many invocations have returned so far
ContextQuery_counting(st) ==
    Lit("\"") \o st.company_name
        \o Lit("\" notícias recentes, produtos e serviços 2024 2025 ")
        \o IntToStr(Len(results))

ContextQuery(st) ==
    Lit("\"") \o st.company_name
        \o Lit("\" notícias recentes, produtos e serviços 2024 2025")

ContextPromptHead(st) ==
    Lit("Você é um analista de negócios sênior. [...] reunião com a empresa '")
        \o st.company_name
        \o Lit("'. **DADOS DA REUNIÃO:** - Objetivo: ")
        \o st.meeting_objective
        \o Lit(" - Participantes: ") \o st.attendees
        \o Lit(" - Duração: ") \o IntToStr(st.duration)
        \o Lit(" minutos **RESULTADOS DA PESQUISA WEB:** ")

ContextPromptTail ==
    Lit(" **INSTRUÇÃO:** [...] gere uma análise de contexto concisa em markdown [...]")

ContextPrompt(st, found) ==
    ContextPromptHead(st) \o Truncate(found) \o ContextPromptTail

\* variant: the placeholder leaves the error out
ContextFailure_nodetail(detail) ==
    WarningMarker \o Lit(" Falha ao analisar o contexto da empresa")

ContextFailure(detail) ==
    WarningMarker \o Lit(" Falha ao analisar o contexto da empresa: ") \o detail

\* variant: no except clause, a raising call leaves the node
context_analysis_node_uncaught(st, search, completion) ==
    IF search.raised
    THEN [update |-> <<>>,
          calls |-> <<CallRecord("context", "search", search)>>,
          search_results |-> Unset, prompt |-> Unset, raised |-> TRUE]
    ELSE [update |-> IF completion.raised THEN <<>>
                     ELSE [context_analysis |-> completion.value],
          calls |-> <<CallRecord("context", "search", search),
                      CallRecord("context", "llm", completion)>>,
          search_results |-> search.value,
          prompt |-> ContextPrompt(st, search.value),
          raised |-> completion.raised]

context_analysis_node(st, search, completion) ==
    IF search.raised
    THEN NodeResult([context_analysis |-> ContextFailure(search.value)],
                    <<CallRecord("context", "search", search)>>, Unset, Unset)
    ELSE NodeResult(
            [context_analysis |->
                IF completion.raised THEN ContextFailure(completion.value)
                ELSE completion.value],
            <<CallRecord("context", "search", search),
              CallRecord("context", "llm", completion)>>,
            search.value, ContextPrompt(st, search.value))

\* --- node 2: industry ----------------------------------------------------

IndustryQuery(st) ==
    Lit("Análise de mercado e tendências para o setor da empresa '")
        \o st.company_name \o Lit("'")

IndustryPromptHead(st) ==
    Lit("Como analista de mercado, [...] analisar a indústria da empresa '")
        \o st.company_name
        \o Lit("'. **CONTEXTO DA REUNIÃO:** - Objetivo: ")
        \o st.meeting_objective
        \o Lit(" **DADOS DE MERCADO (PESQUISA WEB):** ")

IndustryPromptTail ==
    Lit(" **INSTRUÇÃO:** Forneça uma análise da indústria em markdown [...]")

IndustryPrompt(st, found) ==
    IndustryPromptHead(st) \o Truncate(found) \o IndustryPromptTail

\* variant: a failure leaves the field empty
IndustryFailure_empty(detail) == <<>>

IndustryFailure(detail) ==
    WarningMarker \o Lit(" Falha ao analisar a indústria: ") \o detail

\* variant: the search is guarded on its own and the completion is called
\* also after the search raised
industry_analysis_node_unguarded(st, search, completion) ==
    NodeResult(
        [industry_analysis |->
            IF search.raised THEN IndustryFailure(search.value)
            ELSE IF completion.raised THEN IndustryFailure(completion.value)
            ELSE completion.value],
        <<CallRecord("industry", "search", search),
          CallRecord("industry", "llm", completion)>>,
        IF search.raised THEN Unset ELSE search.value,
        IF search.raised THEN Unset ELSE IndustryPrompt(st, search.value))

industry_analysis_node(st, search, completion) ==
    IF search.raised
    THEN NodeResult([industry_analysis |-> IndustryFailure(search.value)],
                    <<CallRecord("industry", "search", search)>>, Unset, Unset)
    ELSE NodeResult(
            [industry_analysis |->
                IF completion.raised THEN IndustryFailure(completion.value)
                ELSE completion.value],
            <<CallRecord("industry", "search", search),
              CallRecord("industry", "llm", completion)>>,
            search.value, IndustryPrompt(st, search.value))

\* --- node 3: strategy ----------------------------------------------------

StrategyPromptOf(context, industry, st) ==
    Lit("Você é um consultor estratégico. [...] **ANÁLISE DE CONTEXTO:** ")
        \o context
        \o Lit(" **ANÁLISE DE INDÚSTRIA:** ") \o industry
        \o Lit(" **PARÂMETROS DA REUNIÃO:** - Duração: ")
        \o IntToStr(st.duration)
        \o Lit(" minutos - Objetivo: ") \o st.meeting_objective
        \o Lit(" - Participantes: ") \o st.attendees
        \o Lit(" **INSTRUÇÃO:** [...] 1. **Agenda Detalhada:** [...] (total: ")
        \o IntToStr(st.duration)
        \o Lit(" min). 2. **Estratégia de Abordagem:** [...] 3. **Plano de Ação e Próximos Passos:** [...]")

StrategyPrompt(st) ==
    StrategyPromptOf(Get(st, "context_analysis", NotAvailable),
                     Get(st, "industry_analysis", NotAvailable), st)

StrategyFailure(detail) ==
    WarningMarker \o Lit(" Falha ao desenvolver a estratégia: ") \o detail

\* variant: the update is returned under the previous node's key
strategy_development_node_wrongkey(st, search, completion) ==
    NodeResult(
        [industry_analysis |->
            IF completion.raised THEN StrategyFailure(completion.value)
            ELSE completion.value],
        <<CallRecord("strategy", "llm", completion)>>,
        Unset, StrategyPrompt(st))

strategy_development_node(st, search, completion) ==
    NodeResult(
        [strategy |->
            IF completion.raised THEN StrategyFailure(completion.value)
            ELSE completion.value],
        <<CallRecord("strategy", "llm", completion)>>,
        Unset, StrategyPrompt(st))

\* --- node 4: brief -------------------------------------------------------

BriefPromptOf(context, industry, strategy, context2, industry2, strategy2, st) ==
    Lit("Como assistente executivo, compile um briefing final para a reunião com '")
        \o st.company_name
        \o Lit("'. **DADOS COMPILADOS:** - Contexto: ") \o context
        \o Lit(" - Indústria: ") \o industry
        \o Lit(" - Estratégia: ") \o strategy
        \o Lit(" **INSTRUÇÃO:** [...] # BRIEFING EXECUTIVO: Reunião com ")
        \o st.company_name
        \o Lit(" ## 1. RESUMO DA REUNIÃO - **Objetivo:** ")
        \o st.meeting_objective
        \o Lit(" - **Participantes:** ") \o st.attendees
        \o Lit(" - **Duração:** ") \o IntToStr(st.duration)
        \o Lit(" minutos ## 2. CONTEXTO DA EMPRESA ") \o context2
        \o Lit(" ## 3. ANÁLISE DE MERCADO ") \o industry2
        \o Lit(" ## 4. ESTRATÉGIA E AGENDA ") \o strategy2

BriefPrompt(st) ==
    BriefPromptOf(Get(st, "context_analysis", NotAvailable),
                  Get(st, "industry_analysis", NotAvailable),
                  Get(st, "strategy", NotAvailable),
                  Get(st, "context_analysis", Lit("Análise não disponível.")),
                  Get(st, "industry_analysis", Lit("Análise não disponível.")),
                  Get(st, "strategy", Lit("Estratégia não disponível.")),
                  st)

BriefFailure(detail) ==
    WarningMarker \o Lit(" Falha ao criar o briefing: ") \o detail

executive_brief_node(st, search, completion) ==
    NodeResult(
        [executive_brief |->
            IF completion.raised THEN BriefFailure(completion.value)
            ELSE completion.value],
        <<CallRecord("brief", "llm", completion)>>,
        Unset, BriefPrompt(st))

\* --- the graph -----------------------------------------------------------

Nodes == {"context", "industry", "strategy", "brief"}

\* workflow.add_edge
Edge(node) ==
    CASE node = "context"  -> "industry"
      [] node = "industry" -> "strategy"
      [] node = "strategy" -> "brief"
      [] node = "brief"    -> "END"

EntryPoint == "context"

\* workflow.add_node: does the node consult the search client, and with what
Searches(node) == node \in {"context", "industry"}

QueryOf(node, st) ==
    IF node = "context" THEN ContextQuery(st) ELSE IndustryQuery(st)

\* the prompt the node hands to the completion client
PromptOf(node, st, found) ==
    CASE node = "context"  -> ContextPrompt(st, found)
      [] node = "industry" -> IndustryPrompt(st, found)
      [] node = "strategy" -> StrategyPrompt(st)
      [] node = "brief"    -> BriefPrompt(st)

RunNode(node, st, search, completion) ==
    CASE node = "context"  -> context_analysis_node(st, search, completion)
      [] node = "industry" -> industry_analysis_node(st, search, completion)
      [] node = "strategy" -> strategy_development_node(st, search, completion)
      [] node = "brief"    -> executive_brief_node(st, search, completion)

----------------------------------------------------------------------------
(* The clients.  The providers are outside the program: a call returns     *)
(* text or raises.  A live client may answer the same argument differently *)
(* each time; a deterministic stand-in answers as a fixed function of its  *)
(* argument, which the table records as the function is consulted.         *)

SearchError     == <<"4", "2", "9">>
CompletionError == <<"5", "0", "3">>
CompletionText  == <<"o", "k">>

\* a search result of n characters; the i-th character tells i modulo 10
Filler(n) == [i \in 1..n |-> Digit(i % 10)]

SearchResults ==
    {Filler(2)} \cup {Filler(TruncLimit + over) : over \in 0..MaxOver}

SearchOutcomes == {Raised(SearchError)} \cup {Returned(r) : r \in SearchResults}

CompletionOutcomes ==
    {Raised(CompletionError), Returned(<<>>), Returned(CompletionText)}

LiveClient == [deterministic |-> FALSE, table |-> <<>>]
StandIn    == [deterministic |-> TRUE, table |-> <<>>]

Ask(client, argument, outcomes) ==
    IF client.deterministic /\ argument \in DOMAIN client.table
    THEN {client.table[argument]}
    ELSE outcomes

Learn(client, argument, outcome) ==
    IF client.deterministic
    THEN [client EXCEPT !.table =
            [a \in DOMAIN client.table \cup {argument} |->
                IF a = argument THEN outcome ELSE client.table[a]]]
    ELSE client

----------------------------------------------------------------------------
(* The orchestrator: the script's run on a click of the button. *)

Alphabet == {" ", "A"}

\* typed text: the strings over a space and a letter, and strings with a
\* no-break space or a vertical tab, which strip() removes as well
Companies   == StringsUpTo(Alphabet, MaxLen)
                   \cup {<<"U+00A0", "U+00A0">>, <<"U+00A0", "A">>}
Texts       == StringsUpTo({" ", "U+000B", "x"}, 1)
Durations   == {30, 45, 60, 90, 120}
FocusInputs == {<<>>, <<"T">>}
Timestamps  == {<<"2", "0", "2", "6", "-", "1", "0", "-", "3", "0", "T", "1", "2", ":", "0", "0", ":", "0", "0">>}

NoFocus == Lit("Nenhuma área específica definida")

\* variant: only the completion key is required
KeysConfigured_openai_only(env) == env.openai_api_key

KeysConfigured(env) == env.openai_api_key /\ env.serpapi_api_key

BuildInitialState(f, now) ==
    [company_name      |-> f.company_name,
     meeting_objective |-> f.meeting_objective,
     attendees         |-> f.attendees,
     duration          |-> f.meeting_duration,
     focus_areas       |-> IF f.focus_areas = <<>> THEN NoFocus ELSE f.focus_areas,
     context_analysis  |-> <<>>,
     industry_analysis |-> <<>>,
     strategy          |-> <<>>,
     executive_brief   |-> <<>>,
     timestamp         |-> now]

\* app.invoke(input): the graph starts at its entry point
Invoke(input) ==
    /\ initial_state' = input
    /\ state' = input
    /\ pc' = EntryPoint
    /\ executed' = <<>>
    /\ calls' = <<>>
    /\ written' = <<>>
    /\ search_results' = Unset
    /\ prompt' = Unset

\* a script run that ends before the graph is invoked
NoRun ==
    /\ initial_state' = NoState
    /\ state' = NoState
    /\ pc' = "idle"
    /\ executed' = <<>>
    /\ calls' = <<>>
    /\ written' = <<>>
    /\ search_results' = Unset
    /\ prompt' = Unset

\* what the script shows when it runs without a click of the button
Page(env) == IF KeysConfigured(env) THEN "idle" ELSE "config_error"

\* the user changes one widget: the script runs again, the button unclicked
EditForm ==
    /\ pc = "idle"
    /\ \E f \in {[form EXCEPT !.company_name = v] : v \in Companies}
             \cup {[form EXCEPT !.meeting_objective = v] : v \in Texts}
             \cup {[form EXCEPT !.attendees = v] : v \in Texts}
             \cup {[form EXCEPT !.meeting_duration = v] : v \in Durations}
             \cup {[form EXCEPT !.focus_areas = v] : v \in FocusInputs} :
        /\ f # form
        /\ form' = f
    /\ ui' = Page(env_vars)
    /\ validation_error' = Unset
    /\ results' = <<>>
    /\ NoRun
    /\ UNCHANGED <<env_vars, search_tool, llm>>

\* the script runs again with the widgets as they are and the button
\* unclicked (a click on the download button, or the page's Rerun): nothing
\* of the previous run is kept, neither the result nor the warning
Rerun ==
    /\ pc = "idle"
    /\ ui' = Page(env_vars)
    /\ validation_error' = Unset
    /\ results' = <<>>
    /\ NoRun
    /\ UNCHANGED <<env_vars, search_tool, llm, form>>

\* the user clicks the button: the script validates and invokes the graph
\* (inside a trace span when the LangSmith key is set, the same call otherwise)
PrepareMeeting ==
    /\ pc = "idle"
    /\ KeysConfigured(env_vars)
    /\ LET error == validate_inputs(form.company_name, form.meeting_objective,
                                    form.attendees)
       IN  /\ validation_error' = error
           /\ IF error # None
              THEN /\ ui' = "warning"
                   /\ NoRun
              ELSE /\ ui' = "running"
                   /\ \E now \in Timestamps : Invoke(BuildInitialState(form, now))
    /\ results' = <<>>
    /\ UNCHANGED <<env_vars, search_tool, llm, form>>

\* one node of the graph, and the merge of its update
Step(node) ==
    /\ pc = node
    /\ \E search \in (IF Searches(node)
                      THEN Ask(search_tool, QueryOf(node, state), SearchOutcomes)
                      ELSE {NoCall}) :
       \E completion \in (IF search.raised THEN {NoCall}
                          ELSE Ask(llm, PromptOf(node, state, search.value),
                                   CompletionOutcomes)) :
        LET r == RunNode(node, state, search, completion)
        IN  /\ search_tool' = IF Searches(node)
                              THEN Learn(search_tool, QueryOf(node, state), search)
                              ELSE search_tool
            /\ llm' = IF search.raised THEN llm
                      ELSE Learn(llm, PromptOf(node, state, search.value), completion)
            /\ executed' = Append(executed, node)
            /\ calls' = calls \o r.calls
            /\ search_results' = r.search_results
            /\ prompt' = r.prompt
            /\ IF r.raised
               THEN \* the exception leaves app.invoke; the script reports it
                    /\ ui' = "error"
                    /\ pc' = "idle"
                    /\ UNCHANGED <<state, written>>
               ELSE /\ state' = Merge(state, r.update)
                    /\ written' = written \o SetToSeq(DOMAIN r.update)
                    /\ pc' = Edge(node)
                    /\ UNCHANGED ui
    /\ UNCHANGED <<env_vars, form, validation_error, initial_state, results>>

ContextStep  == Step("context")
IndustryStep == Step("industry")
StrategyStep == Step("strategy")
BriefStep    == Step("brief")

\* the graph reached END: app.invoke returns the state, the script shows it
Finish ==
    /\ pc = "END"
    /\ results' = Append(results, state)
    /\ ui' = "done"
    /\ pc' = "idle"
    /\ UNCHANGED <<env_vars, search_tool, llm, form, validation_error,
                   initial_state, state, executed, calls, written,
                   search_results, prompt>>

\* the widgets' values when the page is first shown
DefaultForm ==
    [company_name |-> <<>>, meeting_objective |-> <<>>, attendees |-> <<>>,
     meeting_duration |-> 60, focus_areas |-> <<>>]

Init ==
    /\ env_vars \in [openai_api_key : BOOLEAN, serpapi_api_key : BOOLEAN,
                     langsmith_api_key : BOOLEAN]
    /\ search_tool = LiveClient
    /\ llm = LiveClient
    /\ form = DefaultForm
    /\ ui = Page(env_vars)
    /\ validation_error = Unset
    /\ initial_state = NoState
    /\ state = NoState
    /\ pc = "idle"
    /\ executed = <<>>
    /\ calls = <<>>
    /\ written = <<>>
    /\ search_results = Unset
    /\ prompt = Unset
    /\ results = <<>>

Next ==
    \/ EditForm
    \/ Rerun
    \/ PrepareMeeting
    \/ ContextStep
    \/ IndustryStep
    \/ StrategyStep
    \/ BriefStep
    \/ Finish

Spec == Init /\ [][Next]_vars

----------------------------------------------------------------------------
(* The graph under deterministic stand-ins: the compiled graph is invoked  *)
(* on a state, and then once more on the same state, with clients that     *)
(* answer as fixed functions of their argument.                            *)

HarnessForm ==
    [company_name |-> <<"A", "c">>, meeting_objective |-> <<"x">>,
     attendees |-> <<"y">>, meeting_duration |-> 60, focus_areas |-> <<>>]

\* the state as the script builds it, and the same without its output keys
HarnessStates ==
    LET full == BuildInitialState(HarnessForm, CHOOSE now \in Timestamps : TRUE)
    IN  {full, [k \in InputKeys |-> full[k]]}

HarnessInvoke ==
    /\ pc = "idle"
    /\ Len(results) < 2
    /\ IF results = <<>>
       THEN \E input \in HarnessStates : Invoke(input)
       ELSE Invoke(initial_state)
    /\ ui' = "running"
    /\ UNCHANGED <<env_vars, search_tool, llm, form, validation_error, results>>

InitDet ==
    /\ env_vars = [openai_api_key |-> TRUE, serpapi_api_key |-> TRUE,
                   langsmith_api_key |-> FALSE]
    /\ search_tool = StandIn
    /\ llm = StandIn
    /\ form = HarnessForm
    /\ ui = "idle"
    /\ validation_error = Unset
    /\ initial_state = NoState
    /\ state = NoState
    /\ pc = "idle"
    /\ executed = <<>>
    /\ calls = <<>>
    /\ written = <<>>
    /\ search_results = Unset
    /\ prompt = Unset
    /\ results = <<>>

NextDet ==
    \/ HarnessInvoke
    \/ ContextStep
    \/ IndustryStep
    \/ StrategyStep
    \/ BriefStep
    \/ Finish

SpecDet == InitDet /\ [][NextDet]_vars

----------------------------------------------------------------------------
(* Vocabulary of the properties. *)

StageOrder == <<"context", "industry", "strategy", "brief">>

StageField(node) ==
    CASE node = "context"  -> "context_analysis"
      [] node = "industry" -> "industry_analysis"
      [] node = "strategy" -> "strategy"
      [] node = "brief"    -> "executive_brief"

StageIndex(node) == CHOOSE i \in 1..4 : StageOrder[i] = node

Ran(node) == \E i \in 1..Len(executed) : executed[i] = node

LastExecuted == IF executed = <<>> THEN "none" ELSE executed[Len(executed)]

Called(node, kind, outcome) ==
    \E i \in 1..Len(calls) :
        calls[i].node = node /\ calls[i].kind = kind /\ calls[i].outcome = outcome

Failed(node) == Called(node, "search", "raised") \/ Called(node, "llm", "raised")

CallsOf(node) == SelectSeq(calls, LAMBDA c : c.node = node)

StartsWith(s, t) == Len(s) >= Len(t) /\ SubSeq(s, 1, Len(t)) = t

EndsWith(s, t) == Len(s) >= Len(t) /\ SubSeq(s, Len(s) - Len(t) + 1, Len(s)) = t

IsBlank(s) == \A i \in 1..Len(s) : s[i] \in Whitespace

RunStarted ==
    \/ pc # "idle"
    \/ state # NoState
    \/ initial_state # NoState
    \/ executed # <<>>
    \/ calls # <<>>

----------------------------------------------------------------------------
(* C1: whatever the search and completion calls do, a run executes the    *)
(* four stages context, industry, strategy, brief, each once and in that   *)
(* order, and then reaches END; no failure of a call ends the run before   *)
(* the brief stage has executed, and no exception leaves the graph.        *)
C1_FourStagesInOrder ==
    /\ ui # "error"
    /\ Len(executed) <= 4
    /\ executed = SubSeq(StageOrder, 1, Len(executed))
    /\ ui = "running" =>
          /\ pc = IF Len(executed) < 4 THEN StageOrder[Len(executed) + 1] ELSE "END"
          /\ ENABLED (ContextStep \/ IndustryStep \/ StrategyStep \/ BriefStep \/ Finish)
    /\ pc = "END" => executed = StageOrder
    /\ ui = "done" => executed = StageOrder /\ Len(results) = 1

\* a run in which every stage failed reached END
C1_Witness ==
    /\ pc = "END"
    /\ executed = StageOrder
    /\ \A n \in Nodes : Failed(n)

(* C2: a stage whose search or completion call raised leaves in its output *)
(* field a string that begins with the warning marker and ends with the    *)
(* error's detail; no error reaches the runner; every later stage whose    *)
(* own calls succeed holds the text its completion call returned.          *)
C2_FailureContained ==
    /\ ui # "error"
    /\ \A n \in Nodes :
        Ran(n) /\ Failed(n) =>
            /\ StartsWith(state[StageField(n)], <<"⚠", "U+FE0F">>)
            /\ EndsWith(state[StageField(n)],
                        IF Called(n, "search", "raised")
                        THEN SearchError ELSE CompletionError)
            /\ pc = "END" \/ ui = "done" => \A m \in Nodes : Ran(m)
            /\ \A m \in Nodes :
                StageIndex(m) > StageIndex(n) /\ Ran(m) /\ ~Failed(m) =>
                    state[StageField(m)] =
                        IF Called(m, "llm", "empty") THEN <<>> ELSE CompletionText

\* the context stage failed in its search, and the three later stages
\* succeeded with text
C2_Witness ==
    /\ pc = "END"
    /\ Called("context", "search", "raised")
    /\ \A m \in {"industry", "strategy", "brief"} : Called(m, "llm", "text")

(* C3 as stated: the state a run returns has all four output fields       *)
(* non-empty, whatever the clients do, a completion client that returns    *)
(* the empty string included.                                              *)
C3_AllOutputsNonEmpty ==
    pc = "END" => \A n \in Nodes : state[StageField(n)] # <<>>

(* C3 as amended: in the state a run returns, an output field is empty     *)
(* exactly when its stage's completion call returned the empty string; a   *)
(* stage that failed holds a non-empty placeholder and a stage whose       *)
(* completion returned non-empty text holds that text.                     *)
C3_EmptyOnlyFromEmptyCompletion ==
    pc = "END" =>
        \A n \in Nodes :
            /\ state[StageField(n)] = <<>> <=> Called(n, "llm", "empty")
            /\ Failed(n) => Len(state[StageField(n)]) > 2
            /\ Called(n, "llm", "text") => state[StageField(n)] = CompletionText

\* a returned state with a failed stage, an empty completion and a
\* completion with text
C3_Witness ==
    /\ pc = "END"
    /\ initial_state.company_name = <<" ", "A">>
    /\ Failed("context")
    /\ Called("industry", "llm", "empty")
    /\ state.industry_analysis = <<>>
    /\ Called("strategy", "llm", "text")

(* C4: validate_inputs returns an error exactly when one of the three      *)
(* strings is empty or whitespace-only or the company has fewer than two   *)
(* characters; the reason is the company-required one for a blank company, *)
(* the objective-required one for a blank objective with a non-blank       *)
(* company, the attendees-required one for blank attendees with the other  *)
(* two non-blank, and the minimum-length one for a one-character non-blank *)
(* company with non-blank objective and attendees.                         *)
C4_ValidateInputs ==
    validation_error # Unset =>
        LET c == form.company_name
            o == form.meeting_objective
            a == form.attendees
        IN  /\ validation_error # <<"None">> <=>
                  (IsBlank(c) \/ IsBlank(o) \/ IsBlank(a) \/ Len(c) < 2)
            /\ IsBlank(c) =>
                  validation_error = <<"Nome da empresa é obrigatório">>
            /\ ~IsBlank(c) /\ IsBlank(o) =>
                  validation_error = <<"Objetivo da reunião é obrigatório">>
            /\ ~IsBlank(c) /\ ~IsBlank(o) /\ IsBlank(a) =>
                  validation_error = <<"Lista de participantes é obrigatória">>
            /\ Len(c) = 1 /\ ~IsBlank(c) /\ ~IsBlank(o) /\ ~IsBlank(a) =>
                  validation_error =
                      <<"Nome da empresa deve ter pelo menos 2 caracteres">>

\* a company of two characters, one of them a space, was accepted
C4_Witness ==
    /\ validation_error = <<"None">>
    /\ form.company_name = <<" ", "A">>
    /\ ui = "running"

(* C5: a run has started (a state was built, a node executed, a client was *)
(* called) only if both required keys are present and the submitted        *)
(* company, objective and attendees pass validation; when validation fails *)
(* or a required key is missing, no state is built and no stage executes.  *)
C5_RunOnlyWhenConfiguredAndValid ==
    /\ RunStarted =>
          /\ env_vars.openai_api_key /\ env_vars.serpapi_api_key
          /\ validation_error = <<"None">>
          /\ ~IsBlank(form.company_name)
          /\ ~IsBlank(form.meeting_objective)
          /\ ~IsBlank(form.attendees)
          /\ Len(form.company_name) >= 2
    /\ (~env_vars.openai_api_key \/ ~env_vars.serpapi_api_key) => ~RunStarted
    /\ ui = "warning" => validation_error # <<"None">> /\ ~RunStarted

\* a run started and called both clients
C5_Witness ==
    /\ pc = "industry"
    /\ Called("context", "search", "text")
    /\ Called("context", "llm", "text")

(* C6: with deterministic stand-ins for the two clients, two runs from the *)
(* same initial state return the same values in all four output fields,    *)
(* also when the stand-ins raise.                                          *)
C6_SameOutputsOnRerun ==
    Len(results) = 2 =>
        \A k \in {"context_analysis", "industry_analysis", "strategy",
                  "executive_brief"} :
            results[1][k] = results[2][k]

\* two runs returned, with a stage that failed and a stage that succeeded
C6_Witness ==
    /\ Len(results) = 2
    /\ StartsWith(results[1].context_analysis, <<"⚠", "U+FE0F">>)
    /\ results[2].industry_analysis = CompletionText
    /\ "strategy" \notin DOMAIN initial_state

(* C7: in the context and industry stages the part of the search result    *)
(* embedded in the prompt is its first min(3000, length) characters: a     *)
(* longer result gives its first 3000 characters and nothing more, a       *)
(* shorter one is embedded whole.                                          *)
C7_PromptEmbedsFirst3000 ==
    LastExecuted \in {"context", "industry"} /\ prompt # Unset =>
        LET n    == Len(search_results)
            kept == IF n > 3000 THEN 3000 ELSE n
            head == IF LastExecuted = "context"
                    THEN ContextPromptHead(state) ELSE IndustryPromptHead(state)
            tail == IF LastExecuted = "context"
                    THEN ContextPromptTail ELSE IndustryPromptTail
        IN  /\ Len(prompt) = Len(head) + kept + Len(tail)
            /\ prompt = head \o [i \in 1..kept |-> search_results[i]] \o tail

\* a search result longer than 3000 characters went into a prompt
C7_Witness ==
    /\ LastExecuted = "industry"
    /\ prompt # Unset
    /\ Len(search_results) > 3000

(* C8: during a run the input fields keep the values of the initial state; *)
(* each stage's update writes its own output field and leaves every other  *)
(* field as it was, so the output fields are written once each, by their   *)
(* own stage, in stage order, whether the stage succeeds or fails.         *)
C8_Frame ==
    /\ [](state # NoState =>
            /\ \A k \in {"company_name", "meeting_objective", "attendees",
                         "duration", "focus_areas", "timestamp"} :
                   state[k] = initial_state[k]
            /\ Len(written) = Len(executed)
            /\ \A i \in 1..Len(written) : written[i] = StageField(StageOrder[i])
            /\ \A n \in Nodes : ~Ran(n) => state[StageField(n)] = <<>>)
    /\ [][\A n \in Nodes :
            pc = n =>
                /\ DOMAIN state' = DOMAIN state
                /\ \A k \in DOMAIN state :
                       k # StageField(n) => state'[k] = state[k]
                /\ written' = Append(written, StageField(n))]_vars

\* a run reached END with a failed stage and a successful one
C8_Witness ==
    /\ pc = "END"
    /\ written = <<"context_analysis", "industry_analysis", "strategy",
                   "executive_brief">>
    /\ Failed("industry")
    /\ Called("strategy", "llm", "text")
    /\ state.industry_analysis # <<>>

(* C9 as stated: when the strategy stage, or the brief stage, runs and an  *)
(* upstream output field it reads is the empty string, its prompt holds    *)
(* the "not available" placeholder in place of that field; a field holding *)
(* a failure placeholder is embedded as it is.                             *)
C9_EmptyUpstreamShownAsNotAvailable ==
    LET shown(k, default) == IF state[k] = <<>> THEN default ELSE state[k]
    IN  /\ LastExecuted = "strategy" =>
              prompt = StrategyPromptOf(shown("context_analysis", NotAvailable),
                                        shown("industry_analysis", NotAvailable),
                                        state)
        /\ LastExecuted = "brief" =>
              prompt = BriefPromptOf(
                          shown("context_analysis", NotAvailable),
                          shown("industry_analysis", NotAvailable),
                          shown("strategy", NotAvailable),
                          shown("context_analysis", <<"Análise não disponível.">>),
                          shown("industry_analysis", <<"Análise não disponível.">>),
                          shown("strategy", <<"Estratégia não disponível.">>),
                          state)

(* C10: in a run each stage issues at most one search call and at most one *)
(* completion call, the search call first: context and industry issue one  *)
(* search call and, only if it did not raise, one completion call;         *)
(* strategy and brief issue no search call and one completion call; the    *)
(* calls of a stage come after those of the stages before it; a run makes  *)
(* at most 2 search calls and at most 4 completion calls.                  *)
C10_CallDiscipline ==
    LET kinds(n) == [i \in 1..Len(CallsOf(n)) |-> CallsOf(n)[i].kind]
    IN  /\ \A n \in Nodes : ~Ran(n) => CallsOf(n) = <<>>
        /\ \A n \in {"context", "industry"} :
              Ran(n) =>
                  \/ kinds(n) = <<"search">> /\ Called(n, "search", "raised")
                  \/ kinds(n) = <<"search", "llm">> /\ ~Called(n, "search", "raised")
        /\ \A n \in {"strategy", "brief"} : Ran(n) => kinds(n) = <<"llm">>
        /\ \A i, j \in 1..Len(calls) :
              i < j => StageIndex(calls[i].node) <= StageIndex(calls[j].node)
        /\ Len(SelectSeq(calls, LAMBDA c : c.kind = "search")) <= 2
        /\ Len(SelectSeq(calls, LAMBDA c : c.kind = "llm")) <= 4

\* a run that made two search calls and four completion calls
C10_Witness ==
    /\ pc = "END"
    /\ Len(SelectSeq(calls, LAMBDA c : c.kind = "search")) = 2
    /\ Len(SelectSeq(calls, LAMBDA c : c.kind = "llm")) = 4

====
